---- MODULE Spec2Model ----
(***************************************************************************)
(* kuzco copy-on-write handles (Node, OptNode, Detached, OptDetached) and  *)
(* the transactional StateRoot built on them.                              *)
(*                                                                         *)
(* A Payload is a heap cell identified by a number in 1..MaxPayloads; 0 is *)
(* the null Data (payload == nullptr, qdata == nullptr).  A handle's       *)
(* m_data is the identity of the cell it references: qdata always equals   *)
(* payload.get(), so one number stands for both members of impl::Data.     *)
(* A cell that no handle references is released by shared_ptr and its      *)
(* identity may be handed out again by a later construct.                  *)
(***************************************************************************)
EXTENDS Integers, FiniteSets, TLC

\* ------------------------------------------------------------- bounds
NumNodes == 2
NumDets == 1
MaxVal == 1
MaxTx == 2

NodeIds == 1..NumNodes
DetIds == 1..NumDets
Values == 0..MaxVal
\* one cell per handle, the root's node, the root's published reference,
\* and one more for the clone being built while the old cell is still held
MaxPayloads == NumNodes + NumDets + 3
Payloads == 1..MaxPayloads
Null == 0

VARIABLES pval, nodes, dets, root, txn, uncaught, stats, last

vars == <<pval, nodes, dets, root, txn, uncaught, stats, last>>

\* ------------------------------------------------------------- handles
DeadNode == [kind |-> "dead", data |-> Null, unique |-> TRUE]
DeadDet == [kind |-> "dead", data |-> Null]
NoTxn == [alive |-> FALSE, m_ptr |-> Null, m_cancelled |-> FALSE, threw |-> FALSE,
          v0 |-> 0]

IsLive(n) == n.kind # "dead"

\* a constructor builds its object in the first slot that holds none
FirstDead(h) == ~IsLive(nodes[h]) /\ \A k \in NodeIds : k < h => IsLive(nodes[k])

\* BasicNode::unique
Unique(n) == n.unique

\* operator bool of OptNode / OptDetached; for a Node, "still holds a Payload"
HasData(n) == n.data # Null

\* the set of cells some live handle holds a shared_ptr to
Refs(ns, ds, r) ==
    {ns[h].data : h \in NodeIds} \cup {ds[d].data : d \in DetIds}
        \cup {r.data, r.published}

\* shared_ptr release: the cells outside R are freed
Release(pv, R) == [p \in Payloads |-> IF p \in R THEN pv[p] ELSE 0]

\* impl::Data<T>::construct: a cell that nobody holds at the moment
Fresh == CHOOSE p \in Payloads :
            /\ p \notin Refs(nodes, dets, root)
            /\ \A q \in Payloads : q \notin Refs(nodes, dets, root) => p <= q

\* the value read through a handle (const get / operator*)
Read(n) == pval[n.data]

\* a comparison of the values the two handles hold
EqualsByValue(a, b) ==
    IF HasData(a) /\ HasData(b) THEN pval[a.data] = pval[b.data] ELSE a.data = b.data

\* DataHolder::operator==: qget() == b.qget(); operator!= is its negation
Equals(a, b) == a.data = b.data

\* takeData that forgets to copy the uniqueness
TakeDataKeepsFlag(self, other) == [self EXCEPT !.data = other.data]

\* BasicNode::takeData, the receiving side: the data and the uniqueness of other
TakeData(self, other) == [self EXCEPT !.data = other.data, !.unique = other.unique]

\* BasicNode::takeData / checkedReplace, the giving side: other.m_data = {}
Invalidate(other) == [other EXCEPT !.data = Null]

\* replaceWith that installs the data and leaves m_unique as it was
ReplaceWithKeepsFlag(self, data) == [self EXCEPT !.data = data]

\* replaceWith that sets m_unique and never installs the data
ReplaceWithKeepsData(self, data) == [self EXCEPT !.unique = TRUE]

\* BasicNode::replaceWith
ReplaceWith(self, data) == [self EXCEPT !.data = data, !.unique = TRUE]

\* checkedReplace that takes the data only in the unique branch
CheckedReplaceIfUnique(self, other) ==
    IF Unique(self) THEN [self EXCEPT !.data = other.data] ELSE self

\* BasicNode::checkedReplace, the receiving side
CheckedReplace(self, other) ==
    IF Unique(self) THEN [self EXCEPT !.data = other.data]
    ELSE ReplaceWith(self, other.data)

\* attachTo that shares the data and leaves m_unique as it was
AttachToKeepsFlag(self, n) == [self EXCEPT !.data = n.data]

\* BasicNode::attachTo
AttachTo(self, n) == [self EXCEPT !.data = n.data, !.unique = FALSE]

\* a copy constructor that leaves the default m_unique = true in place
NodeCopyUnique(other) == [kind |-> "Node", data |-> other.data, unique |-> TRUE]

\* Node::Node(const Node&)
NodeCopy(other) == [kind |-> "Node", data |-> other.data, unique |-> FALSE]

\* OptNode::OptNode(const OptNode&)
OptNodeCopy(other) ==
    [kind |-> "OptNode", data |-> other.data,
     unique |-> IF other.data # Null THEN FALSE ELSE TRUE]

\* a write accessor that clones whether the handle is unique or not
NodeGetAlwaysClones(self, fresh) == ReplaceWith(self, fresh)

\* a write accessor without the unique check
NodeGetInPlace(self, fresh) == self

\* Node::get(), non-const: the handle after the unique check
NodeGet(self, fresh) == IF ~Unique(self) THEN ReplaceWith(self, fresh) ELSE self

\* OptNode::get(), non-const
OptNodeGet(self, fresh) ==
    IF HasData(self) /\ ~Unique(self) THEN ReplaceWith(self, fresh) ELSE self

\* what the last operation was: its name, the handle it acted on (h), a
\* second handle (g), the uniqueness (u), data (p) and value (v) of h before
\* it, and one more flag (b)
Op(op, h, g, u, p, v, b) ==
    [op |-> op, h |-> h, g |-> g, u |-> u, p |-> p, v |-> v, b |-> b]

\* impl::Data<T>::construct(*r().get()): the new cell holds a copy of the value
Clone(pv, from, fresh) == [pv EXCEPT ![fresh] = pv[from]]

\* *get() = v: the store after the write accessor turned handle old into new
\* (cloning if the data changed) and v was written through the pointer it returned
WriteVia(old, new, v) ==
    [(IF new.data # old.data THEN Clone(pval, old.data, new.data) ELSE pval)
        EXCEPT ![new.data] = v]

NoStats == [begun |-> 0, ended |-> 0, commits |-> 0, rollbacks |-> 0,
            notified |-> 0, seen |-> 0, seenState |-> "none"]

TypeOK ==
    /\ pval \in [Payloads -> Values]
    /\ \A h \in NodeIds :
        /\ nodes[h].kind \in {"dead", "Node", "OptNode"}
        /\ nodes[h].data \in {Null} \cup Payloads
        /\ nodes[h].unique \in BOOLEAN
    /\ \A d \in DetIds :
        /\ dets[d].kind \in {"dead", "Detached", "OptDetached"}
        /\ dets[d].data \in {Null} \cup Payloads
    /\ root.state \in {"NoRoot", "Idle", "InTransaction"}
    /\ uncaught \in {0, 1}

Init ==
    /\ pval = [p \in Payloads |-> 0]
    /\ nodes = [h \in NodeIds |-> DeadNode]
    /\ dets = [d \in DetIds |-> DeadDet]
    /\ root = [state |-> "NoRoot", data |-> Null, unique |-> TRUE, published |-> Null]
    /\ txn = NoTxn
    /\ uncaught = 0
    /\ stats = NoStats
    /\ last = Op("init", 0, 0, TRUE, Null, 0, FALSE)

\* ------------------------------------------------------------- Node
\* Node(Args&&...): a new Payload holding v, unique
NodeCtor(h, v) ==
    /\ FirstDead(h)
    /\ nodes' = [nodes EXCEPT ![h] = [kind |-> "Node", data |-> Fresh, unique |-> TRUE]]
    /\ pval' = Release([pval EXCEPT ![Fresh] = v], Refs(nodes', dets, root))
    /\ last' = Op("NodeCtor", h, 0, TRUE, Null, 0, FALSE)
    /\ UNCHANGED <<dets, root, txn, uncaught, stats>>

\* Node(const Node& other)
NodeCopyCtor(h, s) ==
    /\ FirstDead(h)
    /\ nodes[s].kind = "Node"
    /\ nodes' = [nodes EXCEPT ![h] = NodeCopy(nodes[s])]
    /\ last' = Op("NodeCopyCtor", h, s, nodes[s].unique, nodes[s].data, 0, FALSE)
    /\ UNCHANGED <<pval, dets, root, txn, uncaught, stats>>

\* Node(Node&& other)
NodeMoveCtor(h, s) ==
    /\ FirstDead(h)
    /\ nodes[s].kind = "Node"
    /\ nodes' = [nodes EXCEPT ![h] = TakeData([DeadNode EXCEPT !.kind = "Node"], nodes[s]),
                              ![s] = Invalidate(nodes[s])]
    /\ last' = Op("NodeMoveCtor", h, s, nodes[s].unique, nodes[s].data, 0, FALSE)
    /\ UNCHANGED <<pval, dets, root, txn, uncaught, stats>>

\* Node& operator=(Node&& other)
NodeMoveAssign(h, s) ==
    /\ h # s
    /\ nodes[h].kind = "Node"
    /\ nodes[s].kind = "Node"
    /\ nodes' = [nodes EXCEPT ![h] = CheckedReplace(nodes[h], nodes[s]),
                              ![s] = Invalidate(nodes[s])]
    /\ pval' = Release(pval, Refs(nodes', dets, root))
    /\ last' = Op("NodeMoveAssign", h, s, nodes[h].unique, nodes[h].data,
                  0, nodes[s].unique)
    /\ UNCHANGED <<dets, root, txn, uncaught, stats>>

\* h = Node<T>(s): a temporary copy of s, move-assigned to h and then destroyed
\* (copy-assignment is deleted, so this is how a node is given another's data)
NodeAssignCopy(h, s) ==
    /\ nodes[h].kind = "Node"
    /\ nodes[s].kind = "Node"
    /\ nodes' = [nodes EXCEPT ![h] = CheckedReplace(nodes[h], NodeCopy(nodes[s]))]
    /\ pval' = Release(pval, Refs(nodes', dets, root))
    /\ last' = Op("NodeAssignCopy", h, s, nodes[h].unique, nodes[h].data, 0, nodes[s].unique)
    /\ UNCHANGED <<dets, root, txn, uncaught, stats>>

\* Node& operator=(U&& u): in place if unique, a new Payload built from u if not.
\* The unique branch dereferences qget(), so the handle must hold a Payload.
\* The record of the step keeps the assigned value (v).
NodeAssign(h, v) ==
    /\ nodes[h].kind = "Node"
    /\ Unique(nodes[h]) => HasData(nodes[h])
    /\ nodes' = [nodes EXCEPT ![h] =
                    IF Unique(nodes[h]) THEN nodes[h] ELSE ReplaceWith(nodes[h], Fresh)]
    /\ pval' = Release([pval EXCEPT ![nodes'[h].data] = v], Refs(nodes', dets, root))
    /\ last' = Op("NodeAssign", h, 0, nodes[h].unique, nodes[h].data, v, FALSE)
    /\ UNCHANGED <<dets, root, txn, uncaught, stats>>

\* *node.get() = v, *node = v, node->member = v through the non-const accessor.
\* Dereferencing a moved-from Node is excluded by contract.
NodeWrite(h, v) ==
    /\ nodes[h].kind = "Node"
    /\ HasData(nodes[h])
    /\ nodes' = [nodes EXCEPT ![h] = NodeGet(nodes[h], Fresh)]
    /\ pval' = Release(WriteVia(nodes[h], nodes'[h], v), Refs(nodes', dets, root))
    /\ last' = Op("NodeWrite", h, 0, nodes[h].unique, nodes[h].data, 0, FALSE)
    /\ UNCHANGED <<dets, root, txn, uncaught, stats>>

\* const get / operator-> / operator* / payload() on a Node or an OptNode
\* that holds a Payload: nothing but the caller learns the value
NodeRead(h) ==
    /\ IsLive(nodes[h])
    /\ HasData(nodes[h])
    /\ last' = Op("NodeRead", h, 0, nodes[h].unique, nodes[h].data, 0, FALSE)
    /\ UNCHANGED <<pval, nodes, dets, root, txn, uncaught, stats>>

\* a == b between two owning handles; the record keeps the answer (b)
HandleEquals(h, g) ==
    /\ h # g
    /\ IsLive(nodes[h])
    /\ IsLive(nodes[g])
    /\ last' = Op("HandleEquals", h, g, nodes[h].unique, nodes[h].data, 0,
                  Equals(nodes[h], nodes[g]))
    /\ UNCHANGED <<pval, nodes, dets, root, txn, uncaught, stats>>

\* a == d between an owning handle and a snapshot
SnapshotEquals(h, d) ==
    /\ IsLive(nodes[h])
    /\ IsLive(dets[d])
    /\ last' = Op("SnapshotEquals", h, d, nodes[h].unique, nodes[h].data, 0,
                  Equals(nodes[h], dets[d]))
    /\ UNCHANGED <<pval, nodes, dets, root, txn, uncaught, stats>>

\* a detach that marks the handle shared
NodeDetachSharing(d, h) ==
    /\ ~IsLive(dets[d])
    /\ nodes[h].kind = "Node"
    /\ HasData(nodes[h])
    /\ dets' = [dets EXCEPT ![d] = [kind |-> "Detached", data |-> nodes[h].data]]
    /\ nodes' = [nodes EXCEPT ![h] = [@ EXCEPT !.unique = FALSE]]
    /\ last' = Op("NodeDetach", h, d, nodes[h].unique, nodes[h].data, 0, FALSE)
    /\ UNCHANGED <<pval, root, txn, uncaught, stats>>

\* Node::detach: a Detached over payload()
NodeDetach(d, h) ==
    /\ ~IsLive(dets[d])
    /\ nodes[h].kind = "Node"
    /\ HasData(nodes[h])
    /\ dets' = [dets EXCEPT ![d] = [kind |-> "Detached", data |-> nodes[h].data]]
    /\ last' = Op("NodeDetach", h, d, nodes[h].unique, nodes[h].data, 0, FALSE)
    /\ UNCHANGED <<pval, nodes, root, txn, uncaught, stats>>

\* BasicNode::attachTo, on a Node or an OptNode, to a Node or an OptNode
NodeAttachTo(h, s) ==
    /\ IsLive(nodes[h])
    /\ IsLive(nodes[s])
    /\ nodes' = [nodes EXCEPT ![h] = AttachTo(nodes[h], nodes[s])]
    /\ pval' = Release(pval, Refs(nodes', dets, root))
    /\ last' = Op("NodeAttachTo", h, s, nodes[h].unique, nodes[h].data, 0, nodes[s].unique)
    /\ UNCHANGED <<dets, root, txn, uncaught, stats>>

\* ~Node, ~OptNode: the handle's reference is released
NodeDtor(h) ==
    /\ IsLive(nodes[h])
    /\ nodes' = [nodes EXCEPT ![h] = DeadNode]
    /\ pval' = Release(pval, Refs(nodes', dets, root))
    /\ last' = Op("NodeDtor", h, 0, nodes[h].unique, nodes[h].data, 0, FALSE)
    /\ UNCHANGED <<dets, root, txn, uncaught, stats>>

\* ------------------------------------------------------------- OptNode
\* OptNode(), OptNode(std::nullptr_t)
OptNodeCtor(h) ==
    /\ FirstDead(h)
    /\ nodes' = [nodes EXCEPT ![h] = [kind |-> "OptNode", data |-> Null, unique |-> TRUE]]
    /\ last' = Op("OptNodeCtor", h, 0, TRUE, Null, 0, FALSE)
    /\ UNCHANGED <<pval, dets, root, txn, uncaught, stats>>

\* OptNode(const OptNode& other)
OptNodeCopyCtor(h, s) ==
    /\ FirstDead(h)
    /\ nodes[s].kind = "OptNode"
    /\ nodes' = [nodes EXCEPT ![h] = OptNodeCopy(nodes[s])]
    /\ last' = Op("OptNodeCopyCtor", h, s, nodes[s].unique, nodes[s].data, 0, FALSE)
    /\ UNCHANGED <<pval, dets, root, txn, uncaught, stats>>

\* OptNode(OptNode&& other), OptNode(Node<T>&& other)
OptNodeMoveCtor(h, s) ==
    /\ FirstDead(h)
    /\ IsLive(nodes[s])
    /\ nodes' = [nodes EXCEPT ![h] = TakeData([DeadNode EXCEPT !.kind = "OptNode"], nodes[s]),
                              ![s] = Invalidate(nodes[s])]
    /\ last' = Op("OptNodeMoveCtor", h, s, nodes[s].unique, nodes[s].data, 0, FALSE)
    /\ UNCHANGED <<pval, dets, root, txn, uncaught, stats>>

\* OptNode& operator=(OptNode&& other)
OptNodeMoveAssign(h, s) ==
    /\ h # s
    /\ nodes[h].kind = "OptNode"
    /\ nodes[s].kind = "OptNode"
    /\ nodes' = [nodes EXCEPT ![h] = CheckedReplace(nodes[h], nodes[s]),
                              ![s] = Invalidate(nodes[s])]
    /\ pval' = Release(pval, Refs(nodes', dets, root))
    /\ last' = Op("OptNodeMoveAssign", h, s, nodes[h].unique, nodes[h].data,
                  0, nodes[s].unique)
    /\ UNCHANGED <<dets, root, txn, uncaught, stats>>

\* OptNode& operator=(std::nullptr_t)
OptNodeAssignNull(h) ==
    /\ nodes[h].kind = "OptNode"
    /\ nodes' = [nodes EXCEPT ![h] = [@ EXCEPT !.data = Null]]
    /\ pval' = Release(pval, Refs(nodes', dets, root))
    /\ last' = Op("OptNodeAssignNull", h, 0, nodes[h].unique, nodes[h].data, 0, FALSE)
    /\ UNCHANGED <<dets, root, txn, uncaught, stats>>

\* OptNode::reset
OptNodeReset(h) ==
    /\ nodes[h].kind = "OptNode"
    /\ nodes' = [nodes EXCEPT ![h] = [@ EXCEPT !.data = Null]]
    /\ pval' = Release(pval, Refs(nodes', dets, root))
    /\ last' = Op("OptNodeReset", h, 0, nodes[h].unique, nodes[h].data, 0, FALSE)
    /\ UNCHANGED <<dets, root, txn, uncaught, stats>>

\* *opt.get() = v through the non-const accessor; an empty OptNode must not
\* be dereferenced (the caller checks operator bool first)
OptNodeWrite(h, v) ==
    /\ nodes[h].kind = "OptNode"
    /\ HasData(nodes[h])
    /\ nodes' = [nodes EXCEPT ![h] = OptNodeGet(nodes[h], Fresh)]
    /\ pval' = Release(WriteVia(nodes[h], nodes'[h], v), Refs(nodes', dets, root))
    /\ last' = Op("OptNodeWrite", h, 0, nodes[h].unique, nodes[h].data, 0, FALSE)
    /\ UNCHANGED <<dets, root, txn, uncaught, stats>>

\* OptNode::detach: an OptDetached over payload(), empty if the OptNode is
OptNodeDetach(d, h) ==
    /\ ~IsLive(dets[d])
    /\ nodes[h].kind = "OptNode"
    /\ dets' = [dets EXCEPT ![d] = [kind |-> "OptDetached", data |-> nodes[h].data]]
    /\ last' = Op("OptNodeDetach", h, d, nodes[h].unique, nodes[h].data, 0, FALSE)
    /\ UNCHANGED <<pval, nodes, root, txn, uncaught, stats>>

\* ~Detached, ~OptDetached
DetachedDtor(d) ==
    /\ IsLive(dets[d])
    /\ dets' = [dets EXCEPT ![d] = DeadDet]
    /\ pval' = Release(pval, Refs(nodes, dets', root))
    /\ last' = Op("DetachedDtor", 0, d, TRUE, dets[d].data, 0, FALSE)
    /\ UNCHANGED <<nodes, root, txn, uncaught, stats>>

\* ------------------------------------------------------------- Root
\* Root<T>::Root(Node<T>&&), as Session::Session calls it: the root's node
\* takes the data and the uniqueness of the node moved in, whose temporary
\* is destroyed at the end of the constructor call
RootCtor(s) ==
    /\ root.state = "NoRoot"
    /\ nodes[s].kind = "Node"
    /\ HasData(nodes[s])
    /\ root' = [TakeData(root, nodes[s]) EXCEPT !.state = "Idle",
                                                !.published = nodes[s].data]
    /\ nodes' = [nodes EXCEPT ![s] = DeadNode]
    /\ last' = Op("RootCtor", s, 0, nodes[s].unique, nodes[s].data, 0, FALSE)
    /\ UNCHANGED <<pval, dets, txn, uncaught, stats>>

\* Root<T>::beginTransaction: the working pointer comes from the write
\* accessor of the root's node; the published reference stays where it was
RootBeginTransaction(r, fresh) == [NodeGet(r, fresh) EXCEPT !.state = "InTransaction"]

\* Root<T>::endTransaction(store): keep the working copy as the published
\* value, or drop it and make the node reference the published Payload again
RootEndTransaction(r, store) ==
    IF store THEN [r EXCEPT !.state = "Idle", !.published = r.data]
    ELSE [r EXCEPT !.state = "Idle", !.data = r.published,
                   !.unique = IF r.data # r.published THEN FALSE ELSE r.unique]

\* Root<T>::detach / detachedPayload: a Detached over the published Payload
RootDetached(r) == [kind |-> "Detached", data |-> r.published]

\* a destructor that looks at the unwinding only
StoreUnlessUnwinding(cancelled, exceptions) == exceptions = 0

\* a destructor that commits whatever happened in the scope
StoreAlways(cancelled, exceptions) == TRUE

\* a destructor that commits while the stack unwinds
StoreUnlessCancelled(cancelled, exceptions) == ~cancelled

\* bool store = !m_cancelled && !std::uncaught_exceptions();
StoreDecision(cancelled, exceptions) == ~cancelled /\ exceptions = 0

\* endTransaction that notifies first and ends the root's transaction after
StateRootNotifyFirst(r, store) ==
    [root |-> RootEndTransaction(r, store), notify |-> store,
     seen |-> pval[r.published], seenState |-> r.state]

\* endTransaction that notifies whether or not the transaction was stored
StateRootNotifyAlways(r, store) ==
    LET r1 == RootEndTransaction(r, store)
    IN  [root |-> r1, notify |-> TRUE, seen |-> pval[r1.published],
         seenState |-> r1.state]

\* StateRoot::endTransaction(store): the root's own endTransaction first, then
\* notifySubscribers(*this) if store; seen is what a subscriber reads through
\* the root it is handed
StateRootEndTransaction(r, store) ==
    LET r1 == RootEndTransaction(r, store)
    IN  [root |-> r1, notify |-> store, seen |-> pval[r1.published],
         seenState |-> r1.state]

\* a begin that is accepted while a scope is open on the root
TransactionCtorUnchecked ==
    /\ root.state # "NoRoot"
    /\ stats.begun < MaxTx
    /\ root' = RootBeginTransaction(root, Fresh)
    /\ pval' = Release(IF root'.data # root.data THEN Clone(pval, root.data, root'.data)
                       ELSE pval, Refs(nodes, dets, root'))
    /\ txn' = [alive |-> TRUE, m_ptr |-> root'.data, m_cancelled |-> FALSE,
               threw |-> FALSE, v0 |-> pval[root.published]]
    /\ stats' = [stats EXCEPT !.begun = @ + 1]
    /\ last' = Op("TransactionCtor", 0, 0, root.unique, root.data, 0, FALSE)
    /\ UNCHANGED <<nodes, dets, uncaught>>

\* StateRoot::transaction() / Transaction(StateRoot&): m_ptr(r.beginTransaction())
TransactionCtor ==
    /\ root.state = "Idle"
    /\ stats.begun < MaxTx
    /\ root' = RootBeginTransaction(root, Fresh)
    /\ pval' = Release(IF root'.data # root.data THEN Clone(pval, root.data, root'.data)
                       ELSE pval, Refs(nodes, dets, root'))
    /\ txn' = [alive |-> TRUE, m_ptr |-> root'.data, m_cancelled |-> FALSE,
               threw |-> FALSE, v0 |-> pval[root.published]]
    /\ stats' = [stats EXCEPT !.begun = @ + 1]
    /\ last' = Op("TransactionCtor", 0, 0, root.unique, root.data, 0, FALSE)
    /\ UNCHANGED <<nodes, dets, uncaught>>

\* transaction() while a scope is open on the root: beginTransaction is only
\* valid from Idle and rejects the call; no Transaction is constructed and
\* no pointer is handed out
TransactionRejected ==
    /\ root.state = "InTransaction"
    /\ last' = Op("TransactionRejected", 0, 0, root.unique, txn.m_ptr, 0, FALSE)
    /\ UNCHANGED <<pval, nodes, dets, root, txn, uncaught, stats>>

\* *t = v, t->member = v: a write through the raw working pointer m_ptr
TransactionWrite(v) ==
    /\ txn.alive
    /\ ~txn.threw
    /\ pval' = [pval EXCEPT ![txn.m_ptr] = v]
    /\ last' = Op("TransactionWrite", 0, 0, root.unique, txn.m_ptr, 0, FALSE)
    /\ UNCHANGED <<nodes, dets, root, txn, uncaught, stats>>

\* Transaction::cancel
TransactionCancel ==
    /\ txn.alive
    /\ ~txn.threw
    /\ txn' = [txn EXCEPT !.m_cancelled = TRUE]
    /\ last' = Op("TransactionCancel", 0, 0, root.unique, txn.m_ptr, 0, txn.m_cancelled)
    /\ UNCHANGED <<pval, nodes, dets, root, uncaught, stats>>

\* the body of the scope throws: the stack unwinds, and the only thing that
\* still happens to the scope is its destructor
TransactionThrow ==
    /\ txn.alive
    /\ ~txn.threw
    /\ uncaught = 0
    /\ txn' = [txn EXCEPT !.threw = TRUE]
    /\ uncaught' = 1
    /\ last' = Op("TransactionThrow", 0, 0, root.unique, txn.m_ptr, 0, FALSE)
    /\ UNCHANGED <<pval, nodes, dets, root, stats>>

\* ~Transaction: store, then m_root.endTransaction(store).  The record of the
\* step keeps std::uncaught_exceptions() (h), the value published when the
\* transaction began (g), store (u), the working pointer (p), the working
\* value (v) and m_cancelled (b).
TransactionDtor ==
    /\ txn.alive
    /\ LET store == StoreDecision(txn.m_cancelled, uncaught)
           res == StateRootEndTransaction(root, store)
       IN  /\ root' = res.root
           /\ pval' = Release(pval, Refs(nodes, dets, root'))
           /\ stats' = [begun |-> stats.begun,
                        ended |-> stats.ended + 1,
                        commits |-> stats.commits + (IF store THEN 1 ELSE 0),
                        rollbacks |-> stats.rollbacks + (IF store THEN 0 ELSE 1),
                        notified |-> stats.notified + (IF res.notify THEN 1 ELSE 0),
                        seen |-> IF res.notify THEN res.seen ELSE stats.seen,
                        seenState |-> IF res.notify THEN res.seenState
                                      ELSE stats.seenState]
           /\ last' = Op("TransactionDtor", uncaught, txn.v0, store, txn.m_ptr,
                         pval[txn.m_ptr], txn.m_cancelled)
    /\ txn' = NoTxn
    /\ UNCHANGED <<nodes, dets, uncaught>>

\* the exception is caught once the scopes it unwinds are gone
Catch ==
    /\ uncaught = 1
    /\ ~txn.alive
    /\ uncaught' = 0
    /\ last' = Op("Catch", 0, 0, TRUE, Null, 0, FALSE)
    /\ UNCHANGED <<pval, nodes, dets, root, txn, stats>>

\* root.detach(): a snapshot of the published value.  While nothing but
\* detaches happened since the last commit (b says so), h and v carry the
\* value published before that transaction and the value it committed.
RootDetach(d) ==
    /\ root.state # "NoRoot"
    /\ ~IsLive(dets[d])
    /\ dets' = [dets EXCEPT ![d] = RootDetached(root)]
    /\ LET first == last.op = "TransactionDtor" /\ last.u
           again == last.op = "RootDetach" /\ last.b
       IN  last' = Op("RootDetach",
                      IF first THEN last.g ELSE IF again THEN last.h ELSE 0,
                      d, root.unique, root.published,
                      IF first \/ again THEN last.v ELSE 0, first \/ again)
    /\ UNCHANGED <<pval, nodes, root, txn, uncaught, stats>>

\* the handle protocol alone: Node, OptNode, Detached, OptDetached
Next ==
    \/ \E h \in NodeIds, v \in Values : NodeCtor(h, v)
    \/ \E h, s \in NodeIds : NodeCopyCtor(h, s)
    \/ \E h, s \in NodeIds : NodeMoveCtor(h, s)
    \/ \E h, s \in NodeIds : NodeMoveAssign(h, s)
    \/ \E h, s \in NodeIds : NodeAssignCopy(h, s)
    \/ \E h \in NodeIds, v \in Values : NodeAssign(h, v)
    \/ \E h \in NodeIds, v \in Values : NodeWrite(h, v)
    \/ \E h \in NodeIds : NodeRead(h)
    \/ \E h, g \in NodeIds : HandleEquals(h, g)
    \/ \E h \in NodeIds, d \in DetIds : SnapshotEquals(h, d)
    \/ \E d \in DetIds, h \in NodeIds : NodeDetach(d, h)
    \/ \E h, s \in NodeIds : NodeAttachTo(h, s)
    \/ \E h \in NodeIds : NodeDtor(h)
    \/ \E h \in NodeIds : OptNodeCtor(h)
    \/ \E h, s \in NodeIds : OptNodeCopyCtor(h, s)
    \/ \E h, s \in NodeIds : OptNodeMoveCtor(h, s)
    \/ \E h, s \in NodeIds : OptNodeMoveAssign(h, s)
    \/ \E h \in NodeIds : OptNodeAssignNull(h)
    \/ \E h \in NodeIds : OptNodeReset(h)
    \/ \E h \in NodeIds, v \in Values : OptNodeWrite(h, v)
    \/ \E d \in DetIds, h \in NodeIds : OptNodeDetach(d, h)
    \/ \E d \in DetIds : DetachedDtor(d)

Spec == Init /\ [][Next]_vars

\* the transactional root, with the nodes it is built from and shares with
TxNext ==
    \/ \E h \in NodeIds, v \in Values : NodeCtor(h, v)
    \/ \E h, s \in NodeIds : NodeCopyCtor(h, s)
    \/ \E h \in NodeIds : NodeDtor(h)
    \/ \E d \in DetIds : DetachedDtor(d)
    \/ \E s \in NodeIds : RootCtor(s)
    \/ TransactionCtor
    \/ TransactionRejected
    \/ \E v \in Values : TransactionWrite(v)
    \/ TransactionCancel
    \/ TransactionThrow
    \/ TransactionDtor
    \/ Catch
    \/ \E d \in DetIds : RootDetach(d)

TxSpec == Init /\ [][TxNext]_vars

\* ------------------------------------------------------------- claims
WriteOps == {"NodeWrite", "NodeAssign", "OptNodeWrite"}
CopyOps == {"NodeCopyCtor", "OptNodeCopyCtor"}
MoveCtorOps == {"NodeMoveCtor", "OptNodeMoveCtor"}

C2_SharedWriteClones ==
    [][(last'.op \in WriteOps /\ ~last'.u /\ last'.p # Null) =>
        LET h == last'.h
            p == last'.p
        IN  /\ nodes'[h].data # p
            /\ nodes'[h].data # Null
            /\ nodes'[h].data \notin Refs(nodes, dets, root)
            /\ Unique(nodes'[h])
            /\ \A g \in NodeIds \ {h} : nodes[g].data = p =>
                    nodes'[g] = nodes[g] /\ pval'[p] = pval[p]
            /\ \A d \in DetIds : dets[d].data = p =>
                    dets'[d] = dets[d] /\ pval'[p] = pval[p]]_vars

\* a non-unique handle was written, it is unique on another Payload now, and
\* an owning handle still holds the old Payload with another value
C2_Witness ==
    /\ last.op \in WriteOps
    /\ ~last.u
    /\ last.p # Null
    /\ Unique(nodes[last.h])
    /\ nodes[last.h].data # last.p
    /\ \E g \in NodeIds \ {last.h} :
            /\ IsLive(nodes[g])
            /\ nodes[g].data = last.p
            /\ Read(nodes[g]) # Read(nodes[last.h])

\* C3 as stated: in every reachable state each Payload is referenced by at
\* most one live owning handle whose unique flag is true.
C3_SingleUniqueOwner ==
    \A p \in Payloads :
        Cardinality({h \in NodeIds : IsLive(nodes[h]) /\ nodes[h].data = p
                                        /\ Unique(nodes[h])}) <= 1

C5_CopyShares ==
    [][last'.op \in CopyOps =>
        LET h == last'.h
            s == last'.g
        IN  /\ nodes'[h].data = nodes[s].data
            /\ HasData(nodes[s]) => ~Unique(nodes'[h])
            /\ nodes'[s] = nodes[s]
            /\ pval' = pval
            /\ Refs(nodes', dets', root') = Refs(nodes, dets, root)]_vars

\* a unique Node holding a Payload was just copied
C5_Witness ==
    /\ last.op = "NodeCopyCtor"
    /\ last.u
    /\ last.p # Null
    /\ nodes[last.h].data = last.p
    /\ nodes[last.g].data = last.p
    /\ ~Unique(nodes[last.h])
    /\ Unique(nodes[last.g])

\* C6: move construction transfers: the source references no Payload, the new
\* handle holds the Payload and the unique flag the source held, and no
\* Payload is allocated or released.
C6_MoveTransfers ==
    [][last'.op \in MoveCtorOps =>
        LET h == last'.h
            s == last'.g
        IN  /\ nodes'[s].data = Null
            /\ nodes'[h].data = nodes[s].data
            /\ Unique(nodes'[h]) = Unique(nodes[s])
            /\ pval' = pval
            /\ Refs(nodes', dets', root') \ {Null} = Refs(nodes, dets, root) \ {Null}]_vars

\* a non-unique Node holding a Payload was just moved into a new handle
C6_Witness ==
    /\ last.op \in MoveCtorOps
    /\ ~last.u
    /\ last.p # Null
    /\ nodes[last.h].data = last.p
    /\ ~Unique(nodes[last.h])
    /\ nodes[last.g].data = Null

C8_CommitVisible ==
    /\ (last.op = "TransactionDtor" /\ last.u) =>
            /\ root.state = "Idle"
            /\ root.published = last.p
            /\ pval[root.published] = last.v
            /\ stats.seen = last.v
    /\ (last.op = "RootDetach" /\ last.b) =>
            /\ dets[last.g].data = root.published
            /\ Read(dets[last.g]) = last.v
            /\ stats.seen = last.v

\* a transaction changed the published value and was stored, and a snapshot
\* detached afterwards reads the new value
C8_Witness ==
    /\ last.op = "RootDetach"
    /\ last.b
    /\ last.h # last.v
    /\ Read(dets[last.g]) = last.v

\* C9: every scope that began has ended exactly once or is still open, each
\* end ran exactly one of commit and rollback, and the scope's destructor
\* stored iff cancel() was not called and no exception was unwinding.
C9_EndsExactlyOnce ==
    /\ stats.begun = stats.ended + (IF txn.alive THEN 1 ELSE 0)
    /\ stats.ended = stats.commits + stats.rollbacks
    /\ txn.alive <=> root.state = "InTransaction"
    /\ last.op = "TransactionDtor" =>
            /\ ~txn.alive
            /\ last.u <=> (~last.b /\ last.h = 0)

\* a scope that was not cancelled ended by unwinding and rolled back, after
\* an earlier scope had committed
C9_Witness ==
    /\ last.op = "TransactionDtor"
    /\ ~last.u
    /\ ~last.b
    /\ last.h = 1
    /\ stats.commits = 1
    /\ stats.rollbacks = 1

\* C10: the subscribers were notified once per stored transaction and never
\* for another, and a notified subscriber saw the root after its own
\* endTransaction had run.
C10_NotifiedOncePerCommit ==
    /\ stats.notified = stats.commits
    /\ stats.notified > 0 => stats.seenState = "Idle"
    /\ stats.notified = 0 => stats.seenState = "none"

\* one transaction was stored and one was cancelled: one notification
C10_Witness ==
    /\ last.op = "TransactionDtor"
    /\ last.b
    /\ stats.commits = 1
    /\ stats.rollbacks = 1
    /\ stats.notified = 1

\* C11: a transaction that was cancelled or ended by unwinding publishes
\* nothing: from its begin to its end the root's published Payload is the
\* same identity, whether or not the body wrote, so a snapshot detached
\* before it and one detached after it reference the same Payload, and the
\* snapshot taken before still holds its reference.
C11_AbortedDetachSameIdentity ==
    [][/\ (last'.op \in {"TransactionCtor", "TransactionWrite", "TransactionCancel",
                         "TransactionThrow"}) =>
            RootDetached(root').data = RootDetached(root).data
       /\ (last'.op = "TransactionDtor" /\ (last'.b \/ last'.h # 0)) =>
            /\ RootDetached(root').data = RootDetached(root).data
            /\ \A d \in DetIds : dets[d].data = RootDetached(root).data =>
                    dets'[d].data = RootDetached(root').data]_vars

\* a transaction whose begin cloned wrote another value than the published
\* one and was aborted, and a snapshot is identical to what the root detaches
C11_Witness ==
    /\ last.op = "TransactionDtor"
    /\ last.b \/ last.h # 0
    /\ last.v # last.g
    /\ last.p # root.published
    /\ \E d \in DetIds : dets[d].kind = "Detached" /\ dets[d].data = RootDetached(root).data

\* C12 as stated: in every reachable state an OptNode that holds no Payload
\* is unique, however it became empty.
C12_EmptyOptNodeUnique ==
    \A h \in NodeIds :
        (nodes[h].kind = "OptNode" /\ ~HasData(nodes[h])) => Unique(nodes[h])

MoveAssignOps == {"NodeMoveAssign", "OptNodeMoveAssign"}

\* C13: after dst = move(src), dst unique or not before, dst references the
\* Payload src referenced and src references none; the Payload dst held
\* before, if anybody still holds it, has the value it had; no Payload was
\* allocated and no value was copied or changed.
C13_MoveAssignTransfers ==
    [][last'.op \in MoveAssignOps =>
        LET h == last'.h
            s == last'.g
            old == nodes[h].data
            held == Refs(nodes', dets', root') \ {Null}
        IN  /\ nodes'[h].data = nodes[s].data
            /\ nodes'[s].data = Null
            /\ (old \in held) => pval'[old] = pval[old]
            /\ held \subseteq Refs(nodes, dets, root)
            /\ \A p \in held : pval'[p] = pval[p]]_vars

\* a Node that was not unique and shared its Payload with a snapshot was
\* move-assigned another Payload: it holds that one, the source is empty, and
\* the snapshot still holds the old one
C13_Witness ==
    /\ last.op = "NodeMoveAssign"
    /\ ~last.u
    /\ last.p # Null
    /\ HasData(nodes[last.h])
    /\ nodes[last.h].data # last.p
    /\ ~HasData(nodes[last.g])
    /\ \E d \in DetIds : dets[d].data = last.p

C15_UniqueWriteInPlace ==
    [][(last'.op \in WriteOps /\ last'.u /\ last'.p # Null) =>
        /\ nodes'[last'.h].data = last'.p
        /\ Unique(nodes'[last'.h])
        /\ nodes' = nodes
        /\ dets' = dets
        /\ Refs(nodes', dets', root') = Refs(nodes, dets, root)]_vars

\* a unique handle was written while a copy of it shared its Payload, and it
\* still holds that Payload
C15_Witness ==
    /\ last.op \in WriteOps
    /\ last.u
    /\ last.p # Null
    /\ nodes[last.h].data = last.p
    /\ Unique(nodes[last.h])
    /\ \E g \in NodeIds \ {last.h} : nodes[g].data = last.p /\ ~Unique(nodes[g])

\* C16: node = v on a unique Node writes v into the Payload it holds, whose
\* identity stays; on a Node that is not unique it allocates a Payload
\* nobody held, holding v, which the Node adopts, becoming unique, and every
\* other handle or snapshot sharing the old Payload keeps its reference and
\* reads the old value.
C16_ValueAssignIsCow ==
    [][last'.op = "NodeAssign" =>
        LET h == last'.h
            p == last'.p
            v == last'.v
        IN  IF last'.u
            THEN /\ nodes'[h].data = p
                 /\ Unique(nodes'[h])
                 /\ pval'[p] = v
            ELSE /\ nodes'[h].data # Null
                 /\ nodes'[h].data \notin Refs(nodes, dets, root)
                 /\ Unique(nodes'[h])
                 /\ pval'[nodes'[h].data] = v
                 /\ \A g \in NodeIds \ {h} : (p # Null /\ nodes[g].data = p) =>
                        nodes'[g] = nodes[g] /\ pval'[p] = pval[p]
                 /\ \A d \in DetIds : (p # Null /\ dets[d].data = p) =>
                        dets'[d] = dets[d] /\ pval'[p] = pval[p]]_vars

\* a Node that was not unique was assigned a value other than the one its
\* Payload held: it reads the assigned value from another Payload, and a
\* snapshot of the old Payload reads the old value
C16_Witness ==
    /\ last.op = "NodeAssign"
    /\ ~last.u
    /\ last.p # Null
    /\ nodes[last.h].data # last.p
    /\ Read(nodes[last.h]) = last.v
    /\ \E d \in DetIds : dets[d].data = last.p /\ Read(dets[d]) # last.v

ReadOnlyOps == {"NodeRead", "HandleEquals", "SnapshotEquals", "NodeDetach", "OptNodeDetach"}
DetachOps == {"NodeDetach", "OptNodeDetach"}

\* C17: a const read, payload(), a comparison or a detach leaves every
\* handle's Payload identity and unique flag and every Payload's value as
\* they were, allocates nothing, and changes no snapshot; the one thing a
\* detach adds is the new snapshot.
C17_ReadOnlyChangesNothing ==
    [][last'.op \in ReadOnlyOps =>
        /\ nodes' = nodes
        /\ pval' = pval
        /\ \A d \in DetIds :
                \/ dets'[d] = dets[d]
                \/ /\ last'.op \in DetachOps
                   /\ d = last'.g
                   /\ ~IsLive(dets[d])
                   /\ dets'[d].data = nodes[last'.h].data
        /\ Refs(nodes', dets', root') \subseteq Refs(nodes, dets, root)]_vars

\* a unique Node was detached: it is still unique on the Payload it held,
\* which the new snapshot references
C17_Witness ==
    /\ last.op = "NodeDetach"
    /\ last.u
    /\ Unique(nodes[last.h])
    /\ nodes[last.h].data = last.p
    /\ dets[last.g].kind = "Detached"
    /\ dets[last.g].data = last.p

\* C18: cancel() sets m_cancelled and nothing else: the working pointer, the
\* working value, every other value and the root with its published Payload
\* are as they were; no later step of the scope clears the flag; and the
\* destructor of a cancelled scope ends it with store == false, so nothing
\* is committed and the published Payload stays.
C18_CancelOnlySetsFlag ==
    [][/\ last'.op = "TransactionCancel" =>
            /\ txn' = [txn EXCEPT !.m_cancelled = TRUE]
            /\ pval' = pval
            /\ root' = root
            /\ nodes' = nodes
            /\ dets' = dets
            /\ stats' = stats
       /\ (txn.alive /\ txn.m_cancelled /\ txn'.alive) => txn'.m_cancelled
       /\ (last'.op = "TransactionDtor" /\ txn.m_cancelled) =>
            /\ ~last'.u
            /\ stats'.commits = stats.commits
            /\ stats'.rollbacks = stats.rollbacks + 1
            /\ root'.published = root.published]_vars

\* a scope that wrote another value than the published one and was
\* cancelled ended, with no exception in flight, without storing
C18_Witness ==
    /\ last.op = "TransactionDtor"
    /\ last.b
    /\ last.h = 0
    /\ ~last.u
    /\ last.v # last.g
    /\ stats.rollbacks >= 1

\* C19: after h.attachTo(other), h references the Payload other references
\* and is not unique, whatever it was before; other, a handle of its own,
\* has the reference and the unique flag it had; nothing was allocated and
\* no value was copied or changed.
C19_AttachShares ==
    [][last'.op = "NodeAttachTo" =>
        LET h == last'.h
            s == last'.g
            held == Refs(nodes', dets', root') \ {Null}
        IN  /\ nodes'[h].data = nodes[s].data
            /\ ~Unique(nodes'[h])
            /\ (s # h) => nodes'[s] = nodes[s]
            /\ held \subseteq Refs(nodes, dets, root)
            /\ \A p \in held : pval'[p] = pval[p]]_vars

\* a unique handle on a Payload of its own was attached to a unique handle:
\* both reference the Payload of the second, which is still unique, and the
\* first is not
C19_Witness ==
    /\ last.op = "NodeAttachTo"
    /\ last.h # last.g
    /\ last.u
    /\ last.p # Null
    /\ HasData(nodes[last.g])
    /\ last.p # nodes[last.g].data
    /\ nodes[last.h].data = nodes[last.g].data
    /\ ~Unique(nodes[last.h])
    /\ Unique(nodes[last.g])

\* C20: a == b answers whether a and b reference the same Payload, whatever
\* values they hold: a comparison's answer is the identity of the two
\* references; a copy equals its source and a snapshot equals the handle it
\* was detached from; a handle whose write cloned is unequal to every handle
\* and snapshot it shared with, whatever value it wrote; and handles on
\* distinct Payloads are unequal even when the values are equal.
C20_EqualityIsIdentity ==
    [][/\ last'.op = "HandleEquals" =>
            (last'.b <=> nodes[last'.h].data = nodes[last'.g].data)
       /\ last'.op = "SnapshotEquals" =>
            (last'.b <=> nodes[last'.h].data = dets[last'.g].data)
       /\ last'.op \in CopyOps => Equals(nodes'[last'.h], nodes'[last'.g])
       /\ last'.op \in DetachOps => Equals(nodes'[last'.h], dets'[last'.g])
       /\ (last'.op \in WriteOps /\ ~last'.u /\ last'.p # Null) =>
            /\ \A g \in NodeIds \ {last'.h} : Equals(nodes[last'.h], nodes[g]) =>
                    ~Equals(nodes'[last'.h], nodes'[g])
            /\ \A d \in DetIds : Equals(nodes[last'.h], dets[d]) =>
                    ~Equals(nodes'[last'.h], dets'[d])
       /\ \A a, b \in NodeIds :
            (HasData(nodes'[a]) /\ HasData(nodes'[b])
                /\ nodes'[a].data # nodes'[b].data) => ~Equals(nodes'[a], nodes'[b])]_vars

\* two handles that hold the same value in two Payloads were compared, and
\* the answer was no
C20_Witness ==
    /\ last.op = "HandleEquals"
    /\ ~last.b
    /\ HasData(nodes[last.h])
    /\ HasData(nodes[last.g])
    /\ Read(nodes[last.h]) = Read(nodes[last.g])

====
